---------------------------- MODULE Spec2Model ----------------------------
(***************************************************************************)
(* Turn-resolution engine of Dungeon-Hero (src/game.py, class GameEngine). *)
(*                                                                         *)
(* One action of the model is one iteration of GameEngine._game_loop: one  *)
(* decoded input, resolved by _handle_game_action or                       *)
(* _handle_inventory_action, followed by the loop's death check.  The      *)
(* collaborators that src/game.py imports (geometry generator, FOV,        *)
(* combat math, trap system, entities) are modelled from their contracts;  *)
(* what they decide at random or by rules of their own is an oracle value  *)
(* chosen by the action.                                                   *)
(*                                                                         *)
(* A handler is a function from the world before an action to the worlds   *)
(* it can end in.  The field trace of a world lists the steps the action   *)
(* performed, in order; it is not part of the state.                       *)
(***************************************************************************)
EXTENDS Integers, Sequences, FiniteSets, TLC

VARIABLES current_level, pos, hp, poison, atk, temp_atk_duration, gold, xp,
          inventory, enemies, items, traps, messages, visible, explored,
          running, showing_inventory, selected_item_index, stairs_walkable

vars == <<current_level, pos, hp, poison, atk, temp_atk_duration, gold, xp,
          inventory, enemies, items, traps, messages, visible, explored,
          running, showing_inventory, selected_item_index, stairs_walkable>>

(***************************************************************************)
(* Bounds of the model and configuration values.                           *)
(***************************************************************************)
\* config.game['total_levels']
TotalLevels == 2
\* config.game['max_messages']
MaxMessages == 1
\* config.player: hit points, inventory capacity, vision range
MaxHp == 2
MaxInventory == 1
VisionRange == 4
\* caps on what one floor generation spawns
MaxEnemies == 2
MaxConsumables == 1
MaxGoldItems == 1
MaxTraps == 1
\* caps on the counters that grow without limit
MaxXp == 1
MaxGold == 1
\* program constants of src/game.py
BaseEnemyCount == 3
MinSpawnDist == 5
BuffLoss == 5
MinAtk == 3
BaseConsumables == 2
BaseGoldItems == 3
\* collaborator constants
BaseAtk == 3
PoisonTurns == 1

(***************************************************************************)
(* Floor geometry: what DungeonGenerator.generate returns.  One layout: a  *)
(* diagonal corridor of floor tiles from the start tile to the far room,   *)
(* the two staircases beside the start tile, walls everywhere else.        *)
(***************************************************************************)
Width == 7
Height == 7

Cells == (0..(Width - 1)) \X (0..(Height - 1))

Grid(c) ==
    IF c[1] = c[2] /\ c[1] >= 1 /\ c[1] <= Width - 2 THEN "."
    ELSE IF c = <<1, 2>> THEN "<"
    ELSE IF c = <<2, 1>> THEN ">"
    ELSE "#"

PlayerStart == <<1, 1>>

\* rooms[-1], the room the boss is placed in: the far end of the corridor
BossRoom == {c \in Cells : Grid(c) = "." /\ c[1] >= Width - 2}

\* Whether DungeonGenerator.is_walkable accepts a staircase tile is the
\* generator's rule; the engine handles both answers (lines 334-352).
StairsWalkable == {TRUE, FALSE}

is_walkable(sw, c) ==
    /\ c \in Cells
    /\ \/ Grid(c) = "."
       \/ sw /\ Grid(c) \in {"<", ">"}

\* The positions get_random_walkable_position draws: for an enemy the tile
\* next to the start or the far end of the corridor (the code rejects the
\* near one), for an item, a trap or a teleport the tile next to the start.
SampleTiles == {c \in Cells : Grid(c) = "." /\ c[1] \in {2, Width - 2}}

PlaceTiles == {c \in Cells : Grid(c) = "." /\ c[1] = 2}

\* Position.distance_to, compared with a bound d: distance > d
FartherThan(a, b, d) ==
    (a[1] - b[1]) * (a[1] - b[1]) + (a[2] - b[2]) * (a[2] - b[2]) > d * d

Adjacent(a, b) ==
    /\ a[1] - b[1] \in {-1, 0, 1}
    /\ a[2] - b[2] \in {-1, 0, 1}

SeqsOf(S, n) == [1..n -> S]

Min(a, b) == IF a < b THEN a ELSE b

Max(a, b) == IF a > b THEN a ELSE b

(***************************************************************************)
(* The world as one record, so that a handler is a function from world to  *)
(* world.  World is the current state; Commit(s) makes s the next state.   *)
(***************************************************************************)
World ==
    [current_level |-> current_level, pos |-> pos, hp |-> hp,
     poison |-> poison, atk |-> atk,
     temp_atk_duration |-> temp_atk_duration, gold |-> gold, xp |-> xp,
     inventory |-> inventory, enemies |-> enemies, items |-> items,
     traps |-> traps, messages |-> messages, visible |-> visible,
     explored |-> explored, running |-> running,
     showing_inventory |-> showing_inventory,
     selected_item_index |-> selected_item_index,
     stairs_walkable |-> stairs_walkable, trace |-> <<>>]

Commit(s) ==
    /\ current_level' = s.current_level
    /\ pos' = s.pos
    /\ hp' = s.hp
    /\ poison' = s.poison
    /\ atk' = s.atk
    /\ temp_atk_duration' = s.temp_atk_duration
    /\ gold' = s.gold
    /\ xp' = s.xp
    /\ inventory' = s.inventory
    /\ enemies' = s.enemies
    /\ items' = s.items
    /\ traps' = s.traps
    /\ messages' = s.messages
    /\ visible' = s.visible
    /\ explored' = s.explored
    /\ running' = s.running
    /\ showing_inventory' = s.showing_inventory
    /\ selected_item_index' = s.selected_item_index
    /\ stairs_walkable' = s.stairs_walkable

\* Player.is_alive
is_alive(s) == s.hp > 0

\* A step of the engine, recorded in the history: <<step, argument, the
\* player's hit points after it>>.
Ev(s, name, n) == [s EXCEPT !.trace = Append(@, <<name, n, s.hp>>)]

\* add_message: append, keep the newest max_messages.  A message is
\* <<text, number>>.
add_message(s, text, n) ==
    LET all == Append(s.messages, <<text, n>>)
        kept == IF Len(all) > MaxMessages
                THEN SubSeq(all, Len(all) - MaxMessages + 1, Len(all))
                ELSE all
    IN  [s EXCEPT !.messages = kept,
                  !.trace = Append(@, <<text, n, s.hp>>)]

(***************************************************************************)
(* Visibility (FOVSystem) and _update_fov.                                 *)
(***************************************************************************)
compute_visible(p) == {c \in Cells : ~FartherThan(c, p, VisionRange)}

update_explored(vis, old) == old \cup vis

\* _update_fov handing update_explored a fresh mask instead of the old one
update_fov_Forgets(s) ==
    LET vis == compute_visible(s.pos)
    IN  Ev([s EXCEPT !.visible = vis,
                     !.explored = update_explored(vis, {})],
           "fov", 0)

_update_fov(s) ==
    LET vis == compute_visible(s.pos)
    IN  Ev([s EXCEPT !.visible = vis,
                     !.explored = update_explored(vis, s.explored)],
           "fov", 0)

(***************************************************************************)
(* Floor generation: _spawn_enemies, _spawn_items, _place_item,            *)
(* TrapSystem.generate_traps, _generate_level.  What the random draws      *)
(* produce is the oracle argument (es, its, ts).                           *)
(***************************************************************************)
NormalTypes == {"goblin", "orc"}

min_level(type) == IF type = "orc" THEN 2 ELSE 1

xp_reward(type) == 1

available_enemies(level) == {t \in NormalTypes : level >= min_level(t)}

enemy_count(level) == BaseEnemyCount + level * 2

Enemy(p, type) == [pos |-> p, alive |-> TRUE, type |-> type]

\* The lists _spawn_enemies can append on `level` with the player at p.
EnemySpawns(p, level) ==
    IF level = TotalLevels
    THEN {<<Enemy(c, "dragon")>> : c \in BossRoom}
    ELSE LET far == {d \in SampleTiles : FartherThan(d, p, MinSpawnDist)}
         IN  IF far = {} \/ available_enemies(level) = {} THEN {<<>>}
             ELSE SeqsOf({Enemy(c, t) : c \in far, t \in available_enemies(level)},
                         Min(enemy_count(level), MaxEnemies))

_spawn_enemies(s, level, es) ==
    LET t == Ev([s EXCEPT !.enemies = s.enemies \o es], "spawn_enemies", Len(es))
    IN  IF level = TotalLevels THEN add_message(t, "msg_boss_warning", 0) ELSE t

ConsumableTypes == {"health_potion", "scroll_fireball", "scroll_teleport"}

EquipmentTypes == {"sword"}

GoldValue == 1

item_category(name) ==
    CASE name \in ConsumableTypes -> "consumable"
      [] name = "sword" -> "weapon"
      [] name = "shield" -> "armor"
      [] OTHER -> "currency"

Item(p, name) ==
    [pos |-> p, name |-> name, item_category |-> item_category(name),
     value |-> IF name = "gold" THEN GoldValue ELSE 0]

\* The lists _spawn_items can append on `level`: consumables, then one
\* piece of equipment from the second floor on, then gold.
ItemSpawns(level) ==
    LET place(names, n) == SeqsOf({Item(c, nm) : c \in PlaceTiles, nm \in names}, n)
    IN  {a \o b \o c :
           a \in place(ConsumableTypes, Min(BaseConsumables + level, MaxConsumables)),
           b \in IF level > 1 THEN place(EquipmentTypes, 1) ELSE {<<>>},
           c \in place({"gold"}, Min(BaseGoldItems + level, MaxGoldItems))}

_spawn_items(s, its) == Ev([s EXCEPT !.items = s.items \o its], "spawn_items", Len(its))

TrapKinds == {"damage", "poison"}

Trap(p, kind) == [pos |-> p, kind |-> kind, triggered |-> FALSE]

\* TrapSystem.generate_traps: armed traps on walkable tiles other than the
\* player's start.
TrapSpawns ==
    SeqsOf({Trap(c, k) : c \in PlaceTiles \ {PlayerStart}, k \in TrapKinds}, MaxTraps)

_generate_level(s, level, es, its, ts) ==
    LET s1 == Ev([s EXCEPT !.current_level = level,
                           !.explored = {},
                           !.visible = {},
                           !.pos = PlayerStart,
                           !.enemies = <<>>,
                           !.items = <<>>,
                           !.traps = <<>>], "generate", level)
        s2 == _spawn_enemies(s1, level, es)
        s3 == _spawn_items(s2, its)
        s4 == [s3 EXCEPT !.traps = ts]
        s5 == _update_fov(s4)
    IN  add_message(s5, "msg_enter_level", level)

\* GameEngine.__init__ and start(), up to the first iteration of the loop.
InitWorld(sw, es, its, ts) ==
    LET s0 == [current_level |-> 1, pos |-> <<1, 1>>, hp |-> MaxHp,
               poison |-> 0, atk |-> BaseAtk, temp_atk_duration |-> 0,
               gold |-> 0, xp |-> 0, inventory |-> <<>>, enemies |-> <<>>,
               items |-> <<>>, traps |-> <<>>, messages |-> <<>>,
               visible |-> {}, explored |-> {}, running |-> FALSE,
               showing_inventory |-> FALSE, selected_item_index |-> -1,
               stairs_walkable |-> sw, trace |-> <<>>]
        s1 == _generate_level(s0, 1, es, its, ts)
        s2 == add_message(s1, "msg_welcome", 0)
        s3 == add_message(s2, "msg_controls", 0)
    IN  [s3 EXCEPT !.running = TRUE]

Init ==
    \E sw \in StairsWalkable :
      \E es \in EnemySpawns(PlayerStart, 1), its \in ItemSpawns(1),
         ts \in TrapSpawns :
        LET s == InitWorld(sw, es, its, ts)
        IN  /\ current_level = s.current_level
            /\ pos = s.pos
            /\ hp = s.hp
            /\ poison = s.poison
            /\ atk = s.atk
            /\ temp_atk_duration = s.temp_atk_duration
            /\ gold = s.gold
            /\ xp = s.xp
            /\ inventory = s.inventory
            /\ enemies = s.enemies
            /\ items = s.items
            /\ traps = s.traps
            /\ messages = s.messages
            /\ visible = s.visible
            /\ explored = s.explored
            /\ running = s.running
            /\ showing_inventory = s.showing_inventory
            /\ selected_item_index = s.selected_item_index
            /\ stairs_walkable = s.stairs_walkable

(***************************************************************************)
(* The Enemy Turn Driver and the Status Effect Ticker.                     *)
(***************************************************************************)
\* What one enemy's AI may decide; "act" is an attack when the enemy stands
\* next to the player and nothing otherwise: the enemies hold their tiles.
EnemyChoice == {"idle", "act"}

\* CombatSystem.enemy_take_turn(enemies[i], player, ...), then the logging
\* of its message (lines 469-474).
enemy_take_turn(s, i, choice) ==
    LET e == s.enemies[i]
    IN  IF choice = "idle" THEN Ev(s, "enemy_act", i)
        ELSE IF Adjacent(e.pos, s.pos)
        THEN add_message(Ev([s EXCEPT !.hp = Max(0, s.hp - 1)], "enemy_act", i),
                         "msg_enemy_attack", 0)
        ELSE Ev(s, "enemy_act", i)

\* seq without the elements at the indices in D
RemoveAt(seq, D) ==
    LET F[i \in 0..Len(seq)] ==
          IF i = 0 THEN <<>>
          ELSE IF i \in D THEN F[i - 1] ELSE Append(F[i - 1], seq[i])
    IN  F[Len(seq)]

\* TrapSystem.update_player_poison, then the logging of its message.
update_player_poison(s) ==
    IF s.poison > 0
    THEN add_message(Ev([s EXCEPT !.hp = Max(0, s.hp - 1),
                                  !.poison = s.poison - 1], "poison_tick", 0),
                     "msg_poison", 0)
    ELSE Ev(s, "poison_tick", 0)

\* the ticker taking the buff off without the floor of 3 on the attack stat
update_temporary_effects_NoFloor(s) ==
    IF s.temp_atk_duration > 0
    THEN LET d == s.temp_atk_duration - 1
             t == Ev([s EXCEPT !.temp_atk_duration = d,
                               !.atk = IF d = 0 THEN s.atk - BuffLoss ELSE s.atk],
                     "buff_tick", 0)
         IN  IF d = 0 THEN add_message(t, "msg_buff_expired", 0) ELSE t
    ELSE Ev(s, "buff_tick", 0)

\* _update_temporary_effects, then the logging of its message (494-497).
_update_temporary_effects(s) ==
    IF s.temp_atk_duration > 0
    THEN LET d == s.temp_atk_duration - 1
             t == Ev([s EXCEPT !.temp_atk_duration = d,
                               !.atk = IF d = 0 THEN Max(MinAtk, s.atk - BuffLoss)
                                        ELSE s.atk],
                     "buff_tick", 0)
         IN  IF d = 0 THEN add_message(t, "msg_buff_expired", 0) ELSE t
    ELSE Ev(s, "buff_tick", 0)

\* the loop of _enemy_turn without the return on the player's death
RECURSIVE EnemyLoop_NoHalt(_, _, _, _)
EnemyLoop_NoHalt(s, i, ch, dead) ==
    IF i > Len(s.enemies) THEN [s |-> s, halted |-> FALSE, dead |-> dead]
    ELSE IF s.enemies[i].alive
    THEN EnemyLoop_NoHalt(enemy_take_turn(s, i, ch[i]), i + 1, ch, dead)
    ELSE EnemyLoop_NoHalt(s, i + 1, ch, dead \cup {i})

\* The for loop of _enemy_turn from enemy i on: the world after it,
\* whether it returned early, and the dead enemies it noted for removal.
RECURSIVE EnemyLoop(_, _, _, _)
EnemyLoop(s, i, ch, dead) ==
    IF i > Len(s.enemies) THEN [s |-> s, halted |-> FALSE, dead |-> dead]
    ELSE IF s.enemies[i].alive
    THEN LET t == enemy_take_turn(s, i, ch[i])
         IN  IF ~is_alive(t) THEN [s |-> t, halted |-> TRUE, dead |-> dead]
             ELSE EnemyLoop(t, i + 1, ch, dead)
    ELSE EnemyLoop(s, i + 1, ch, dead \cup {i})

_enemy_turn(s, ch) ==
    LET r == EnemyLoop(Ev(s, "enemy_turn", 0), 1, ch, {})
    IN  IF r.halted THEN r.s
        ELSE LET s1 == Ev([r.s EXCEPT !.enemies = RemoveAt(r.s.enemies, r.dead)],
                          "purge", Cardinality(r.dead))
                 s2 == update_player_poison(s1)
             IN  IF s1.poison > 0 /\ ~is_alive(s2) THEN s2
                 ELSE _update_temporary_effects(s2)

\* Every outcome of one enemy-turn pass.
EnemyTurns(s) == {_enemy_turn(s, ch) : ch \in [1..Len(s.enemies) -> EnemyChoice]}

(***************************************************************************)
(* The Level Transition Manager and the end states.                        *)
(***************************************************************************)
\* Every floor _generate_level(level) can produce from s.
Generations(s, level) ==
    {_generate_level(s, level, es, its, ts) :
       es \in EnemySpawns(PlayerStart, level),
       its \in ItemSpawns(level),
       ts \in TrapSpawns}

_victory(s) == Ev([s EXCEPT !.running = FALSE], "victory", 0)

_game_over(s) == Ev([s EXCEPT !.running = FALSE], "game_over", 0)

\* _go_downstairs comparing with > where the code has >=
go_downstairs_PastLast(s) ==
    IF s.current_level > TotalLevels
    THEN {_victory(s)}
    ELSE Generations(s, s.current_level + 1)

\* _go_downstairs without the test for the final floor
go_downstairs_NoLastFloor(s) ==
    Generations(s, s.current_level + 1)

_go_downstairs(s) ==
    IF s.current_level >= TotalLevels
    THEN {_victory(s)}
    ELSE Generations(s, s.current_level + 1)

\* _go_upstairs comparing with >= 1 where the code has > 1
go_upstairs_FromFirst(s) ==
    IF s.current_level >= 1
    THEN Generations(s, s.current_level - 1)
    ELSE {add_message(s, "msg_topmost_floor", 0)}

_go_upstairs(s) ==
    IF s.current_level > 1
    THEN Generations(s, s.current_level - 1)
    ELSE {add_message(s, "msg_topmost_floor", 0)}

(***************************************************************************)
(* Traps and pickup.                                                       *)
(***************************************************************************)
ArmedAt(s, c) == {i \in 1..Len(s.traps) : s.traps[i].pos = c /\ ~s.traps[i].triggered}

\* TrapSystem.check_trap_at: the first armed trap on the tile triggers and
\* applies its effect; the result says whether a message came back.
check_trap_at(s, c) ==
    IF ArmedAt(s, c) = {} THEN Ev(s, "trap_check", 0)
    ELSE LET i == CHOOSE k \in ArmedAt(s, c) : \A m \in ArmedAt(s, c) : k <= m
             hit == IF s.traps[i].kind = "damage"
                    THEN [s EXCEPT !.hp = Max(0, s.hp - 1), !.traps[i].triggered = TRUE]
                    ELSE [s EXCEPT !.poison = PoisonTurns, !.traps[i].triggered = TRUE]
         IN  Ev(hit, "trap_check", 1)

\* TrapSystem.remove_triggered_traps
remove_triggered_traps(s) ==
    Ev([s EXCEPT !.traps = RemoveAt(s.traps, {i \in 1..Len(s.traps) : s.traps[i].triggered})],
       "trap_purge", 0)

\* the pickup loop admitting an item while the inventory holds
\* max_inventory items (<= where the code has <)
RECURSIVE PickupLoop_OffByOne(_, _, _)
PickupLoop_OffByOne(s, i, taken) ==
    IF i > Len(s.items) THEN [s |-> s, taken |-> taken]
    ELSE LET it == s.items[i]
         IN  IF it.pos # s.pos THEN PickupLoop_OffByOne(s, i + 1, taken)
             ELSE IF it.item_category = "currency"
             THEN PickupLoop_OffByOne(add_message([s EXCEPT !.gold = s.gold + it.value],
                                                  "msg_picked_up", 0),
                                      i + 1, taken \cup {i})
             ELSE IF Len(s.inventory) <= MaxInventory
             THEN PickupLoop_OffByOne(add_message([s EXCEPT !.inventory = Append(@, it.name)],
                                                  "msg_picked_up", 0),
                                      i + 1, taken \cup {i})
             ELSE PickupLoop_OffByOne(add_message(s, "msg_inventory_full", 0), i + 1, taken)

\* the pickup loop treating gold like any other item: it needs room in the
\* inventory and goes into it
RECURSIVE PickupLoop_GoldNeedsRoom(_, _, _)
PickupLoop_GoldNeedsRoom(s, i, taken) ==
    IF i > Len(s.items) THEN [s |-> s, taken |-> taken]
    ELSE LET it == s.items[i]
         IN  IF it.pos # s.pos THEN PickupLoop_GoldNeedsRoom(s, i + 1, taken)
             ELSE IF Len(s.inventory) < MaxInventory
             THEN PickupLoop_GoldNeedsRoom(
                      add_message([s EXCEPT !.inventory = Append(@, it.name)],
                                  "msg_picked_up", 0),
                      i + 1, taken \cup {i})
             ELSE PickupLoop_GoldNeedsRoom(add_message(s, "msg_inventory_full", 0),
                                           i + 1, taken)

\* the pickup loop taking a refused item off the floor all the same
RECURSIVE PickupLoop_FullDiscards(_, _, _)
PickupLoop_FullDiscards(s, i, taken) ==
    IF i > Len(s.items) THEN [s |-> s, taken |-> taken]
    ELSE LET it == s.items[i]
         IN  IF it.pos # s.pos THEN PickupLoop_FullDiscards(s, i + 1, taken)
             ELSE IF it.item_category = "currency"
             THEN PickupLoop_FullDiscards(add_message([s EXCEPT !.gold = s.gold + it.value],
                                                      "msg_picked_up", 0),
                                          i + 1, taken \cup {i})
             ELSE IF Len(s.inventory) < MaxInventory
             THEN PickupLoop_FullDiscards(
                      add_message([s EXCEPT !.inventory = Append(@, it.name)],
                                  "msg_picked_up", 0),
                      i + 1, taken \cup {i})
             ELSE PickupLoop_FullDiscards(add_message(s, "msg_inventory_full", 0),
                                          i + 1, taken \cup {i})

\* The for loop of _check_pickup_item from item i on; taken holds the
\* indices of items_to_remove.
RECURSIVE PickupLoop(_, _, _)
PickupLoop(s, i, taken) ==
    IF i > Len(s.items) THEN [s |-> s, taken |-> taken]
    ELSE LET it == s.items[i]
         IN  IF it.pos # s.pos THEN PickupLoop(s, i + 1, taken)
             ELSE IF it.item_category = "currency"
             THEN PickupLoop(add_message([s EXCEPT !.gold = s.gold + it.value],
                                         "msg_picked_up", 0),
                             i + 1, taken \cup {i})
             ELSE IF Len(s.inventory) < MaxInventory
             THEN PickupLoop(add_message([s EXCEPT !.inventory = Append(@, it.name)],
                                         "msg_picked_up", 0),
                             i + 1, taken \cup {i})
             ELSE PickupLoop(add_message(s, "msg_inventory_full", 0), i + 1, taken)

_check_pickup_item(s) ==
    LET r == PickupLoop(Ev(s, "pickup_check", 0), 1, {})
    IN  [r.s EXCEPT !.items = RemoveAt(r.s.items, r.taken)]

(***************************************************************************)
(* The Action Resolver: _handle_game_action.  A handler yields the set of  *)
(* worlds it can end in, one per outcome of the collaborators it calls.    *)
(***************************************************************************)
MoveActions == {"MOVE_UP", "MOVE_DOWN", "MOVE_LEFT", "MOVE_RIGHT", "MOVE_UP_LEFT",
                "MOVE_UP_RIGHT", "MOVE_DOWN_LEFT", "MOVE_DOWN_RIGHT"}

\* InputHandler.get_movement_delta
get_movement_delta(action) ==
    CASE action = "MOVE_UP" -> <<0, -1>>
      [] action = "MOVE_DOWN" -> <<0, 1>>
      [] action = "MOVE_LEFT" -> <<-1, 0>>
      [] action = "MOVE_RIGHT" -> <<1, 0>>
      [] action = "MOVE_UP_LEFT" -> <<-1, -1>>
      [] action = "MOVE_UP_RIGHT" -> <<1, -1>>
      [] action = "MOVE_DOWN_LEFT" -> <<-1, 1>>
      [] action = "MOVE_DOWN_RIGHT" -> <<1, 1>>

\* _get_enemy_at: the index of the first living enemy on c, 0 for None
_get_enemy_at(s, c) ==
    LET at == {i \in 1..Len(s.enemies) : s.enemies[i].alive /\ s.enemies[i].pos = c}
    IN  IF at = {} THEN 0 ELSE CHOOSE i \in at : \A j \in at : i <= j

\* the player's attack leaving the killed enemy in the list, marked dead,
\* for the purge of the enemy turn
PlayerAttack_LeavesCorpse(s, i, kill, levelup) ==
    LET s1 == add_message(Ev([s EXCEPT !.enemies[i].alive = ~kill], "attack", i),
                          "msg_attack", 0)
        reward == xp_reward(s.enemies[i].type)
        s2 == add_message([s1 EXCEPT !.xp = s1.xp + reward], "msg_xp", reward)
        s3 == IF levelup THEN add_message(s2, "msg_level_up", 0) ELSE s2
    IN  IF kill THEN s3 ELSE s1

\* Lines 294-309: the player's attack on enemy i and its bookkeeping.
\* kill and levelup are what CombatSystem.attack and check_level_up decide.
PlayerAttack(s, i, kill, levelup) ==
    LET s1 == add_message(Ev([s EXCEPT !.enemies[i].alive = ~kill], "attack", i),
                          "msg_attack", 0)
        reward == xp_reward(s.enemies[i].type)
        s2 == add_message([s1 EXCEPT !.xp = s1.xp + reward], "msg_xp", reward)
        s3 == IF levelup THEN add_message(s2, "msg_level_up", 0) ELSE s2
    IN  IF kill
        THEN Ev([s3 EXCEPT !.enemies = RemoveAt(s3.enemies, {i})], "remove_enemy", i)
        ELSE s1

\* Lines 311-313 and 343-345: the enemy turn, then the visibility update.
EndOfTurn(s) == {_update_fov(t) : t \in EnemyTurns(s)}

\* the move onto c with the pickup done ahead of the trap check
MoveTo_PickupFirst(s, c) ==
    LET s1 == _check_pickup_item(Ev([s EXCEPT !.pos = c], "move", 0))
        s2 == check_trap_at(s1, c)
        trapped == ArmedAt(s1, c) # {}
        s3 == IF trapped
              THEN remove_triggered_traps(add_message(s2, "msg_trap", 0))
              ELSE s2
    IN  IF trapped /\ ~is_alive(s3) THEN {_game_over(s3)}
        ELSE LET s4 == Ev(s3, "stairs_check", 0)
             IN  IF Grid(c) = ">" THEN _go_downstairs(s4)
                 ELSE IF Grid(c) = "<" THEN _go_upstairs(s4)
                 ELSE EndOfTurn(s4)

\* the move onto c ending the action once a trap has been sprung
MoveTo_TrapEndsMove(s, c) ==
    LET s1 == Ev([s EXCEPT !.pos = c], "move", 0)
        s2 == check_trap_at(s1, c)
        trapped == ArmedAt(s1, c) # {}
        s3 == IF trapped
              THEN remove_triggered_traps(add_message(s2, "msg_trap", 0))
              ELSE s2
    IN  IF trapped /\ ~is_alive(s3) THEN {_game_over(s3)}
        ELSE IF trapped THEN EndOfTurn(s3)
        ELSE LET s4 == Ev(_check_pickup_item(s3), "stairs_check", 0)
             IN  IF Grid(c) = ">" THEN _go_downstairs(s4)
                 ELSE IF Grid(c) = "<" THEN _go_upstairs(s4)
                 ELSE EndOfTurn(s4)

\* the move onto c without the return on a fatal trap
MoveTo_IgnoresTrapDeath(s, c) ==
    LET s1 == Ev([s EXCEPT !.pos = c], "move", 0)
        s2 == check_trap_at(s1, c)
        trapped == ArmedAt(s1, c) # {}
        s3 == IF trapped
              THEN remove_triggered_traps(add_message(s2, "msg_trap", 0))
              ELSE s2
        s4 == Ev(_check_pickup_item(s3), "stairs_check", 0)
    IN  IF Grid(c) = ">" THEN _go_downstairs(s4)
        ELSE IF Grid(c) = "<" THEN _go_upstairs(s4)
        ELSE EndOfTurn(s4)

\* the move onto c with the enemy turn run after a level transition too
MoveTo_TurnAfterStairs(s, c) ==
    LET s1 == Ev([s EXCEPT !.pos = c], "move", 0)
        s2 == check_trap_at(s1, c)
        trapped == ArmedAt(s1, c) # {}
        s3 == IF trapped
              THEN remove_triggered_traps(add_message(s2, "msg_trap", 0))
              ELSE s2
    IN  IF trapped /\ ~is_alive(s3) THEN {_game_over(s3)}
        ELSE LET s4 == Ev(_check_pickup_item(s3), "stairs_check", 0)
             IN  IF Grid(c) = ">" THEN UNION {EndOfTurn(u) : u \in _go_downstairs(s4)}
                 ELSE IF Grid(c) = "<" THEN UNION {EndOfTurn(u) : u \in _go_upstairs(s4)}
                 ELSE EndOfTurn(s4)

\* Lines 316-345: the move onto the walkable tile c.
MoveTo(s, c) ==
    LET s1 == Ev([s EXCEPT !.pos = c], "move", 0)
        s2 == check_trap_at(s1, c)
        trapped == ArmedAt(s1, c) # {}
        s3 == IF trapped
              THEN remove_triggered_traps(add_message(s2, "msg_trap", 0))
              ELSE s2
    IN  IF trapped /\ ~is_alive(s3) THEN {_game_over(s3)}
        ELSE LET s4 == Ev(_check_pickup_item(s3), "stairs_check", 0)
             IN  IF Grid(c) = ">" THEN _go_downstairs(s4)
                 ELSE IF Grid(c) = "<" THEN _go_upstairs(s4)
                 ELSE EndOfTurn(s4)

\* the blocked move costing a turn
Blocked_TakesTurn(s, c) ==
    IF Grid(c) = ">" THEN _go_downstairs(Ev(s, "stairs_check", 0))
    ELSE IF Grid(c) = "<" THEN _go_upstairs(Ev(s, "stairs_check", 0))
    ELSE EndOfTurn(s)

\* Lines 346-352: the target tile c is not walkable.
Blocked(s, c) ==
    IF Grid(c) = ">" THEN _go_downstairs(Ev(s, "stairs_check", 0))
    ELSE IF Grid(c) = "<" THEN _go_upstairs(Ev(s, "stairs_check", 0))
    ELSE {s}

\* the move resolver with no enemy turn after the player's attack
HandleMove_NoEnemyTurn(s, action) ==
    LET d == get_movement_delta(action)
        c == <<s.pos[1] + d[1], s.pos[2] + d[2]>>
        i == _get_enemy_at(s, c)
    IN  IF i # 0
        THEN {_update_fov(PlayerAttack(s, i, kill, levelup)) :
                kill \in BOOLEAN, levelup \in BOOLEAN}
        ELSE IF is_walkable(s.stairs_walkable, c) THEN MoveTo(s, c)
        ELSE Blocked(s, c)

HandleMove(s, action) ==
    LET d == get_movement_delta(action)
        c == <<s.pos[1] + d[1], s.pos[2] + d[2]>>
        i == _get_enemy_at(s, c)
    IN  IF i # 0
        THEN UNION {EndOfTurn(PlayerAttack(s, i, kill, levelup)) :
                      kill \in BOOLEAN, levelup \in BOOLEAN}
        ELSE IF is_walkable(s.stairs_walkable, c) THEN MoveTo(s, c)
        ELSE Blocked(s, c)

_handle_game_action(s, action) ==
    CASE action \in MoveActions -> HandleMove(s, action)
      [] action = "WAIT" -> EndOfTurn(add_message(s, "msg_wait", 0))
      [] action = "INVENTORY" ->
           {[s EXCEPT !.showing_inventory = TRUE, !.selected_item_index = -1]}
      [] action = "HELP" -> {s}
      [] action \in {"QUIT", "ESC"} ->
           {add_message([s EXCEPT !.running = FALSE], "msg_quit", 0)}
      [] OTHER -> {s}

(***************************************************************************)
(* The Inventory Interaction Handler: _handle_inventory_action.            *)
(***************************************************************************)
NumberActions == {"NUMBER_1"}

\* InputHandler.get_item_index
get_item_index(action) ==
    CASE action = "NUMBER_1" -> 0

\* Player.get_inventory_item(index) is an item: index names a slot in use
HasItem(s, index) == index >= 0 /\ index < Len(s.inventory)

\* Player.remove_from_inventory(index), for a slot in use
remove_from_inventory(s, index) ==
    [s EXCEPT !.inventory = RemoveAt(s.inventory, {index + 1})]

\* CombatSystem.use_item(player, item, enemies): a potion heals, a fireball
\* kills some of the living enemies (they stay in the list, marked dead), a
\* teleport scroll moves the player to a random walkable tile.
use_item(s, name) ==
    CASE name = "health_potion" -> {[s EXCEPT !.hp = Min(MaxHp, s.hp + 1)]}
      [] name = "scroll_fireball" ->
           {[s EXCEPT !.enemies = [i \in 1..Len(s.enemies) |->
                                     IF i \in K THEN [s.enemies[i] EXCEPT !.alive = FALSE]
                                     ELSE s.enemies[i]]] :
              K \in SUBSET {i \in 1..Len(s.enemies) : s.enemies[i].alive}}
      [] name = "scroll_teleport" ->
           {[s EXCEPT !.pos = c] : c \in PlaceTiles}
      [] OTHER -> {s}

\* CombatSystem.equip_item(player, item)
equip_item(s, name) ==
    s

CloseInventory(s) == [s EXCEPT !.showing_inventory = FALSE, !.selected_item_index = -1]

\* Lines 388-409
UseItem(s) ==
    LET sel == s.selected_item_index
        name == s.inventory[sel + 1]
        used == IF sel < 0 THEN {s}
                ELSE IF ~HasItem(s, sel) THEN {add_message(s, "msg_no_item_selected", 0)}
                ELSE IF item_category(name) = "consumable"
                THEN {add_message(remove_from_inventory(Ev(t, "use_item", 0), sel),
                                  "msg_used_item", 0) : t \in use_item(s, name)}
                ELSE IF item_category(name) \in {"weapon", "armor"}
                THEN {add_message(remove_from_inventory(Ev(equip_item(s, name), "equip_item", 0),
                                                        sel),
                                  "msg_equipped", 0)}
                ELSE {add_message(s, "msg_cannot_use", 0)}
    IN  {_update_fov(CloseInventory(t)) : t \in used}

\* Lines 410-421
DropItem(s) ==
    LET sel == s.selected_item_index
        dropped == IF HasItem(s, sel)
                   THEN add_message([remove_from_inventory(s, sel) EXCEPT
                                       !.items = Append(@, Item(s.pos, s.inventory[sel + 1]))],
                                    "msg_dropped", 0)
                   ELSE s
    IN  _update_fov(CloseInventory(dropped))

_handle_inventory_action(s, action) ==
    CASE action \in NumberActions ->
           {[s EXCEPT !.selected_item_index = get_item_index(action)]}
      [] action = "USE_ITEM" -> UseItem(s)
      [] action = "DROP_ITEM" -> {DropItem(s)}
      [] action \in {"QUIT", "ESC", "INVENTORY"} -> {CloseInventory(s)}
      [] OTHER -> {s}

(***************************************************************************)
(* The Game Loop Driver: one iteration of _game_loop (lines 257-277).      *)
(***************************************************************************)
\* the loop handing every action to the game handler, whatever the mode
game_loop_NoRouting(s, action) ==
    {IF ~is_alive(t) THEN _game_over(t) ELSE t : t \in _handle_game_action(s, action)}

_game_loop(s, action) ==
    LET handled == IF s.showing_inventory THEN _handle_inventory_action(s, action)
                   ELSE _handle_game_action(s, action)
    IN  {IF ~is_alive(t) THEN _game_over(t) ELSE t : t \in handled}

\* One iteration on `action`; the counters without a limit stay in bounds.
Step(action) ==
    \E t \in _game_loop(World, action) :
      /\ t.xp <= MaxXp
      /\ t.gold <= MaxGold
      /\ Commit(t)

InGame == running /\ ~showing_inventory

InInventory == running /\ showing_inventory

Move == InGame /\ \E a \in MoveActions : Step(a)

Wait == InGame /\ Step("WAIT")

OpenInventory == InGame /\ Step("INVENTORY")

Help == InGame /\ Step("HELP")

Quit == InGame /\ \E a \in {"QUIT", "ESC"} : Step(a)

UnboundKey == InGame /\ \E a \in {"NUMBER_1", "USE_ITEM", "DROP_ITEM"} : Step(a)

SelectItem == InInventory /\ \E a \in NumberActions : Step(a)

Use == InInventory /\ Step("USE_ITEM")

Drop == InInventory /\ Step("DROP_ITEM")

CloseInv == InInventory /\ \E a \in {"QUIT", "ESC", "INVENTORY"} : Step(a)

UnboundInvKey == InInventory /\ \E a \in {"WAIT", "HELP", "MOVE_UP"} : Step(a)

Next ==
    \/ Move
    \/ Wait
    \/ OpenInventory
    \/ Help
    \/ Quit
    \/ UnboundKey
    \/ SelectItem
    \/ Use
    \/ Drop
    \/ CloseInv
    \/ UnboundInvKey

Spec == Init /\ [][Next]_vars

(***************************************************************************)
(* What the claims are stated with: the inputs, the outcomes of one        *)
(* iteration from the current state, and the steps an outcome performed.   *)
(***************************************************************************)
Inputs == MoveActions \cup {"WAIT", "INVENTORY", "HELP", "QUIT", "ESC", "NUMBER_1",
                            "USE_ITEM", "DROP_ITEM"}

\* The worlds one iteration on `action` can end in from the current state.
Outcomes(action) ==
    IF running
    THEN {t \in _game_loop(World, action) : t.xp <= MaxXp /\ t.gold <= MaxGold}
    ELSE {}

Target(action) ==
    LET d == get_movement_delta(action) IN <<pos[1] + d[1], pos[2] + d[2]>>

LivingAt(c) == {i \in 1..Len(enemies) : enemies[i].alive /\ enemies[i].pos = c}

\* the places of step `name` in the trace of outcome t
At(t, name) == {i \in 1..Len(t.trace) : t.trace[i][1] = name}

Count(t, name) == Cardinality(At(t, name))

MessageTexts == {"msg_boss_warning", "msg_enter_level", "msg_welcome", "msg_controls",
                 "msg_enemy_attack", "msg_poison", "msg_buff_expired",
                 "msg_topmost_floor", "msg_picked_up", "msg_inventory_full",
                 "msg_attack", "msg_xp", "msg_level_up", "msg_trap", "msg_wait",
                 "msg_quit", "msg_no_item_selected", "msg_used_item", "msg_equipped",
                 "msg_cannot_use", "msg_dropped"}

Logged(t) == {i \in 1..Len(t.trace) : t.trace[i][1] \in MessageTexts}

\* C1: a directional move whose target tile holds a living enemy leaves
\* the player where it is, resolves exactly one attack, against a living
\* enemy on that tile, runs no trap, pickup or stairs check, and is
\* followed by exactly one enemy-turn pass.
C1_AttackInsteadOfMove ==
    InGame =>
      \A a \in MoveActions :
        LivingAt(Target(a)) # {} =>
          \A t \in Outcomes(a) :
            /\ t.pos = pos
            /\ Count(t, "move") = 0
            /\ Count(t, "attack") = 1
            /\ \A i \in At(t, "attack") : t.trace[i][2] \in LivingAt(Target(a))
            /\ Count(t, "trap_check") = 0
            /\ Count(t, "pickup_check") = 0
            /\ Count(t, "stairs_check") = 0
            /\ Count(t, "enemy_turn") = 1
            /\ \A i \in At(t, "attack"), j \in At(t, "enemy_turn") : i < j

\* a move into a living enemy is resolved, and the attack kills it
C1_Witness ==
    /\ InGame
    /\ \E a \in MoveActions :
         /\ LivingAt(Target(a)) # {}
         /\ \E t \in Outcomes(a) : Count(t, "remove_enemy") = 1

\* C2: a directional move whose target tile is not walkable, is no
\* staircase and holds no living enemy changes nothing of the world, logs
\* no message and runs no enemy turn.
C2_BlockedMoveIsNoOp ==
    InGame =>
      \A a \in MoveActions :
        (/\ ~is_walkable(stairs_walkable, Target(a))
         /\ Grid(Target(a)) \notin {"<", ">"}
         /\ LivingAt(Target(a)) = {}) =>
          \A t \in Outcomes(a) :
            /\ t = World
            /\ Logged(t) = {}
            /\ Count(t, "enemy_turn") = 0

\* a move into a wall is resolved, with enemies on the floor that could act
C2_Witness ==
    /\ InGame
    /\ \E i \in 1..Len(enemies) : enemies[i].alive /\ Adjacent(enemies[i].pos, pos)
    /\ \E a \in MoveActions :
         /\ ~is_walkable(stairs_walkable, Target(a))
         /\ Grid(Target(a)) \notin {"<", ">"}
         /\ LivingAt(Target(a)) = {}
         /\ Outcomes(a) # {}

PassSteps == {"enemy_act", "purge", "poison_tick", "buff_tick"}

\* C3: in any enemy-turn pass, once an enemy's action leaves the player
\* dead, no later enemy acts in that pass and neither the dead-enemy
\* purge, the poison tick nor the buff tick runs.
C3_PassHaltsOnDeath ==
    \A a \in Inputs :
      \A t \in Outcomes(a) :
        \A i \in At(t, "enemy_act") :
          t.trace[i][3] = 0 =>
            \A j \in 1..Len(t.trace) : j > i => t.trace[j][1] \notin PassSteps

\* an enemy kills the player in a pass in which a later living enemy is
\* still to act
C3_Witness ==
    \E a \in Inputs :
      \E t \in Outcomes(a) :
        \E i \in At(t, "enemy_act") :
          /\ t.trace[i][3] = 0
          /\ \E m \in 1..Len(t.enemies) : m > t.trace[i][2] /\ t.enemies[m].alive

\* the moves of the current state that reach the staircase check on a
\* tile of symbol sym
StairMoves(sym) ==
    {a \in MoveActions : Target(a) \in Cells /\ Grid(Target(a)) = sym}

NoItemAdded(t) ==
    \A i \in 1..Len(t.items) : \E j \in 1..Len(items) : items[j] = t.items[i]

\* C4: descending while the floor index equals total_levels shows the
\* victory screen exactly once, clears running and generates no floor: the
\* floor index, the enemies and the traps are as they were and no item is
\* added.
C4_VictoryOnFinalFloor ==
    current_level = TotalLevels =>
      \A a \in StairMoves(">") :
        \A t \in Outcomes(a) :
          Count(t, "stairs_check") = 1 =>
            /\ Count(t, "victory") = 1
            /\ ~t.running
            /\ Count(t, "generate") = 0
            /\ Count(t, "spawn_enemies") = 0
            /\ t.current_level = current_level
            /\ t.enemies = enemies
            /\ t.traps = traps
            /\ NoItemAdded(t)

\* the player descends from the final floor, with its boss still there
C4_Witness ==
    /\ current_level = TotalLevels
    /\ \E i \in 1..Len(enemies) : enemies[i].alive
    /\ \E a \in StairMoves(">") :
         \E t \in Outcomes(a) : Count(t, "stairs_check") = 1 /\ ~t.running

\* C5: ascending while the floor index is 1 leaves the floor index as it
\* is, generates no floor (enemies and traps as they were, no item added)
\* and logs the "topmost floor" message.
C5_TopmostFloor ==
    current_level = 1 =>
      \A a \in StairMoves("<") :
        \A t \in Outcomes(a) :
          Count(t, "stairs_check") = 1 =>
            /\ t.current_level = 1
            /\ Count(t, "generate") = 0
            /\ Count(t, "spawn_enemies") = 0
            /\ t.enemies = enemies
            /\ t.traps = traps
            /\ NoItemAdded(t)
            /\ Count(t, "msg_topmost_floor") = 1
            /\ t.messages[Len(t.messages)][1] = "msg_topmost_floor"

\* the player climbs the up staircase of floor 1 after coming back to it
C5_Witness ==
    /\ current_level = 1
    /\ pos # PlayerStart
    /\ \E a \in StairMoves("<") :
         \E t \in Outcomes(a) : Count(t, "stairs_check") = 1 /\ t.running

\* the place of a step in the order of a successful move; 0 for the others
Rank(name) ==
    CASE name = "move" -> 1
      [] name = "trap_check" -> 2
      [] name = "pickup_check" -> 3
      [] name = "stairs_check" -> 4
      [] name = "enemy_turn" -> 5
      [] name = "enemy_act" -> 6
      [] name = "purge" -> 7
      [] name = "poison_tick" -> 8
      [] name = "buff_tick" -> 9
      [] OTHER -> 0

Ranked(t) == {i \in 1..Len(t.trace) : Rank(t.trace[i][1]) > 0}

\* C6: within one action the side effects of a successful move occur in
\* the order position update, trap check, item pickup, staircase check,
\* enemy-turn pass (enemy actions, dead-enemy purge, poison tick), buff
\* tick; no step runs before an earlier one and each runs at most once
\* (the enemy actions once per enemy).
C6_FixedOrder ==
    \A a \in MoveActions :
      \A t \in Outcomes(a) :
        Count(t, "move") >= 1 =>
          /\ \A i, j \in Ranked(t) :
               i < j => Rank(t.trace[i][1]) <= Rank(t.trace[j][1])
          /\ \A i, j \in Ranked(t) :
               (i # j /\ t.trace[i][1] = t.trace[j][1]) =>
                 (t.trace[i][1] = "enemy_act" /\ t.trace[i][2] # t.trace[j][2])

\* a move that springs a trap, picks an item up and is answered by a full
\* enemy-turn pass in which an enemy acts
C6_Witness ==
    \E a \in MoveActions :
      \E t \in Outcomes(a) :
        /\ Count(t, "move") = 1
        /\ \E i \in At(t, "trap_check") : t.trace[i][2] = 1
        /\ Count(t, "msg_picked_up") >= 1
        /\ Count(t, "stairs_check") = 1
        /\ Count(t, "enemy_act") >= 1
        /\ Count(t, "purge") = 1
        /\ Count(t, "poison_tick") = 1
        /\ Count(t, "buff_tick") = 1

\* C7: whenever the engine waits for the next player action, the enemies
\* collection holds no enemy whose alive flag is false.
C7_NoDeadEnemyAwaitingInput ==
    running => \A i \in 1..Len(enemies) : enemies[i].alive

\* C8: after floor generation and after every resolved turn no two living
\* enemies share a tile and no living enemy stands on the player's tile.
C8_NoOverlap ==
    /\ \A i, j \in 1..Len(enemies) :
         (i # j /\ enemies[i].alive /\ enemies[j].alive) =>
           enemies[i].pos # enemies[j].pos
    /\ \A i \in 1..Len(enemies) : enemies[i].alive => enemies[i].pos # pos

\* the steps of an outcome that change the player's position or the floor
Relocations(t) ==
    At(t, "move") \cup At(t, "generate")
      \cup {i \in At(t, "use_item") : t.pos # pos}

\* C9: after any action in which the player's position or the floor
\* changed, the visibility recomputation has run after the last such
\* change of that action.
C9_FovAfterRelocation ==
    \A a \in Inputs :
      \A t \in Outcomes(a) :
        /\ (t.pos # pos \/ t.current_level # current_level) => Relocations(t) # {}
        /\ \A i \in Relocations(t) : \E j \in At(t, "fov") : j > i

\* C10: within a floor explored_mask only grows: an action that does not
\* generate a floor keeps every explored cell explored, and an action that
\* generates one leaves exactly what the first visibility update of the
\* new floor marks.
C10_ExploredMonotonic ==
    \A a \in Inputs :
      \A t \in Outcomes(a) :
        /\ Count(t, "generate") = 0 => explored \subseteq t.explored
        /\ Count(t, "generate") > 0 => t.explored = compute_visible(t.pos)

\* the player walks on within a floor: cells seen earlier have left the
\* visible mask and are still explored
C10_Witness ==
    \E a \in MoveActions :
      \E t \in Outcomes(a) :
        /\ Count(t, "generate") = 0
        /\ t.pos # pos
        /\ \E c \in explored : c \notin t.visible /\ c \in t.explored

\* the items of the current floor that lie on tile c, by category
CurrencyOn(c) ==
    {i \in 1..Len(items) : items[i].pos = c /\ items[i].item_category = "currency"}

GoodsOn(c) ==
    {i \in 1..Len(items) : items[i].pos = c /\ items[i].item_category # "currency"}

\* the moves of the current state that put the player on their target tile
StepMoves ==
    {a \in MoveActions : /\ InGame
                         /\ is_walkable(stairs_walkable, Target(a))
                         /\ LivingAt(Target(a)) = {}}

\* the player is alive after the trap check of outcome t
SurvivesTrap(t) == \A i \in At(t, "trap_check") : t.trace[i][3] > 0

\* C11: in every reachable state the inventory holds at most max_inventory
\* items, also after a step onto a tile on which several items lie.
C11_InventoryWithinCapacity ==
    /\ Len(inventory) <= MaxInventory
    /\ \A a \in Inputs : \A t \in Outcomes(a) : Len(t.inventory) <= MaxInventory

\* a step onto a tile with several items: one is picked up, which fills
\* the inventory, and another is refused in the same turn
C11_Witness ==
    \E a \in StepMoves :
      /\ Cardinality(GoodsOn(Target(a))) >= 2
      /\ \E t \in Outcomes(a) :
           /\ Len(inventory) < Len(t.inventory)
           /\ Len(t.inventory) = MaxInventory
           /\ Count(t, "msg_inventory_full") >= 1

\* the sum of the values of the items of the current floor at the indices S
RECURSIVE ValueOf(_)
ValueOf(S) ==
    IF S = {} THEN 0
    ELSE LET i == CHOOSE k \in S : TRUE IN items[i].value + ValueOf(S \ {i})

\* what C12 says of outcome t of a step onto tile c that holds currency
\* items: their value is added to gold, they are off the floor, the
\* inventory grows only by the other items picked up, and each pickup has
\* its message
CurrencyTaken(t, c) ==
    /\ t.gold = gold + ValueOf(CurrencyOn(c))
    /\ Count(t, "generate") = 0 =>
         \A i \in 1..Len(t.items) :
           t.items[i].pos = c => t.items[i].item_category # "currency"
    /\ GoodsOn(c) = {} => t.inventory = inventory
    /\ Count(t, "msg_picked_up")
         = Cardinality(CurrencyOn(c)) + Len(t.inventory) - Len(inventory)

\* C12 as stated: a step onto a tile holding currency adds its value to
\* gold, removes it from the floor whatever the inventory holds, leaves the
\* inventory alone, logs one pickup message for it, and the enemy turn of
\* the action runs.
C12_AsStated ==
    \A a \in StepMoves :
      CurrencyOn(Target(a)) # {} =>
        \A t \in Outcomes(a) :
          /\ CurrencyTaken(t, Target(a))
          /\ Count(t, "enemy_turn") = 1

\* C12, amended: the same, for a step whose trap check the player
\* survives; the enemy turn runs unless the tile is a staircase.
C12_CurrencyPickup ==
    \A a \in StepMoves :
      CurrencyOn(Target(a)) # {} =>
        \A t \in Outcomes(a) :
          SurvivesTrap(t) =>
            /\ CurrencyTaken(t, Target(a))
            /\ Grid(Target(a)) \notin {"<", ">"} => Count(t, "enemy_turn") = 1

\* gold is picked up in a step in which the inventory is full: another
\* item of the tile is refused for lack of room
C12_Witness ==
    \E a \in StepMoves :
      /\ CurrencyOn(Target(a)) # {}
      /\ \E t \in Outcomes(a) :
           /\ SurvivesTrap(t)
           /\ Count(t, "msg_inventory_full") >= 1
           /\ t.gold > gold
           /\ Count(t, "enemy_turn") = 1

\* the non-currency items among its, in order, that lie on tile c
GoodsAt(its, c) ==
    SelectSeq(its, LAMBDA it : it.pos = c /\ it.item_category # "currency")

\* what C13 says of outcome t of a step onto tile c: the non-currency
\* items of c are taken in order while the inventory has room; from the
\* moment it is at capacity the inventory stays as it is, every further
\* item is still on the floor at c and is answered by "inventory full"
GoodsRefused(t, c) ==
    LET goods == GoodsAt(items, c)
        room == MaxInventory - Len(inventory)
        k == IF room < Len(goods) THEN room ELSE Len(goods)
    IN  /\ t.inventory = inventory \o [i \in 1..k |-> goods[i].name]
        /\ Count(t, "generate") = 0 =>
             GoodsAt(t.items, c) = SubSeq(goods, k + 1, Len(goods))
        /\ Count(t, "msg_inventory_full") = Len(goods) - k

\* C13 as stated: with the inventory at capacity, a step onto a tile
\* holding a non-currency item keeps the inventory, leaves the item on the
\* floor at that position and logs "inventory full".
C13_AsStated ==
    Len(inventory) = MaxInventory =>
      \A a \in StepMoves :
        GoodsOn(Target(a)) # {} =>
          \A t \in Outcomes(a) : GoodsRefused(t, Target(a))

\* C13, amended: a non-currency item that the pickup check of a step finds
\* while the inventory is at capacity (from before the step or filled by
\* earlier items of the tile) leaves the inventory as it is, stays on the
\* floor at that position and is answered by "inventory full"; this for a
\* step whose trap check the player survives, and the item stays unless
\* the tile is a staircase whose transition generates a floor.
C13_InventoryFull ==
    \A a \in StepMoves :
      GoodsOn(Target(a)) # {} =>
        \A t \in Outcomes(a) : SurvivesTrap(t) => GoodsRefused(t, Target(a))

\* a player with a full inventory steps onto an item and is refused
C13_Witness ==
    /\ Len(inventory) = MaxInventory
    /\ \E a \in StepMoves :
         /\ GoodsOn(Target(a)) # {}
         /\ \E t \in Outcomes(a) :
              /\ SurvivesTrap(t)
              /\ Count(t, "msg_inventory_full") >= 1
              /\ t.pos = Target(a)

(***************************************************************************)
(* The Status Effect Ticker on its own: the player's attack stat and buff  *)
(* counter are what the combat collaborator has left them at, and each     *)
(* step is one call of _update_temporary_effects with the logging of its   *)
(* message (lines 495-497).                                                *)
(***************************************************************************)
MaxAtk == 14
MaxDuration == 3

TickerInit ==
    \E a \in MinAtk..MaxAtk, d \in 0..MaxDuration, h \in 1..MaxHp :
      /\ current_level = 1
      /\ pos = PlayerStart
      /\ hp = h
      /\ poison = 0
      /\ atk = a
      /\ temp_atk_duration = d
      /\ gold = 0
      /\ xp = 0
      /\ inventory = <<>>
      /\ enemies = <<>>
      /\ items = <<>>
      /\ traps = <<>>
      /\ messages = <<>>
      /\ visible = compute_visible(PlayerStart)
      /\ explored = compute_visible(PlayerStart)
      /\ running = TRUE
      /\ showing_inventory = FALSE
      /\ selected_item_index = -1
      /\ stairs_walkable = FALSE

Tick == Commit(_update_temporary_effects(World))

TickerNext == Tick

TickerSpec == TickerInit /\ [][TickerNext]_vars

\* C14: one call of the ticker lowers a positive buff counter by exactly
\* one; when the counter thereby reaches zero the attack stat becomes
\* max(3, atk - 5) and the expiry message is emitted exactly once; with
\* the counter at zero the call changes neither counter nor attack stat
\* and emits no message.
C14_BuffTick ==
    LET t == _update_temporary_effects(World)
    IN  /\ temp_atk_duration > 1 =>
             /\ t.temp_atk_duration = temp_atk_duration - 1
             /\ t.atk = atk
             /\ Logged(t) = {}
        /\ temp_atk_duration = 1 =>
             /\ t.temp_atk_duration = 0
             /\ t.atk = (IF atk - 5 > 3 THEN atk - 5 ELSE 3)
             /\ Count(t, "msg_buff_expired") = 1
             /\ Cardinality(Logged(t)) = 1
        /\ temp_atk_duration = 0 =>
             /\ t.temp_atk_duration = 0
             /\ t.atk = atk
             /\ Logged(t) = {}
        /\ t.messages # messages => Count(t, "msg_buff_expired") = 1

\* the buff has just run out on a player whose attack stat met the floor
\* of 3: the next call is a call after expiry
C14_Witness ==
    /\ temp_atk_duration = 0
    /\ atk = 3
    /\ messages # <<>>
    /\ messages[Len(messages)][1] = "msg_buff_expired"

\* the armed traps of the current floor on tile c
ArmedOn(c) == {i \in 1..Len(traps) : traps[i].pos = c /\ ~traps[i].triggered}

\* every step `first` of outcome t comes before every step `then`
Precedes(t, first, then) == \A i \in At(t, first), j \in At(t, then) : i < j

\* C15: when the player steps onto an armed trap and survives, the trap
\* message is logged, the triggered trap is purged from the trap
\* collection, and the pickup check and the staircase check still run in
\* the same action, after the purge.
C15_SurvivedTrap ==
    \A a \in StepMoves :
      ArmedOn(Target(a)) # {} =>
        \A t \in Outcomes(a) :
          SurvivesTrap(t) =>
            /\ Count(t, "msg_trap") = 1
            /\ Count(t, "trap_purge") = 1
            /\ Count(t, "pickup_check") = 1
            /\ Count(t, "stairs_check") = 1
            /\ Precedes(t, "trap_check", "msg_trap")
            /\ Precedes(t, "msg_trap", "trap_purge")
            /\ Precedes(t, "trap_purge", "pickup_check")
            /\ Precedes(t, "pickup_check", "stairs_check")
            /\ Count(t, "generate") = 0 =>
                 /\ Len(t.traps) = Len(traps) - 1
                 /\ \A i \in 1..Len(t.traps) : ~t.traps[i].triggered

\* the player survives a damage trap on a tile where an item is picked up
C15_Witness ==
    \E a \in StepMoves :
      /\ ArmedOn(Target(a)) # {}
      /\ \E t \in Outcomes(a) :
           /\ SurvivesTrap(t)
           /\ t.hp < hp
           /\ t.traps = <<>>
           /\ Count(t, "msg_picked_up") >= 1

(***************************************************************************)
(* The game started on a first floor whose trap lies on the walkable down  *)
(* staircase: the trap collaborator is handed the grid and the start tile  *)
(* only, so nothing keeps a trap off the stairs.                           *)
(***************************************************************************)
StairTraps ==
    {<<Trap(c, k)>> : c \in {d \in Cells : Grid(d) = ">"}, k \in TrapKinds}

StairTrapInit ==
    \E es \in EnemySpawns(PlayerStart, 1), its \in ItemSpawns(1), ts \in StairTraps :
        LET s == InitWorld(TRUE, es, its, ts)
        IN  /\ current_level = s.current_level
            /\ pos = s.pos
            /\ hp = s.hp
            /\ poison = s.poison
            /\ atk = s.atk
            /\ temp_atk_duration = s.temp_atk_duration
            /\ gold = s.gold
            /\ xp = s.xp
            /\ inventory = s.inventory
            /\ enemies = s.enemies
            /\ items = s.items
            /\ traps = s.traps
            /\ messages = s.messages
            /\ visible = s.visible
            /\ explored = s.explored
            /\ running = s.running
            /\ showing_inventory = s.showing_inventory
            /\ selected_item_index = s.selected_item_index
            /\ stairs_walkable = s.stairs_walkable

StairTrapSpec == StairTrapInit /\ [][Next]_vars

\* C16: when a trap sprung by the player's move kills the player, the
\* action ends at once with defeat signalled: no item is picked up, no
\* level transition and no victory happens, even on a staircase tile, and
\* no enemy turn and no status tick runs.
C16_FatalTrap ==
    \A a \in StepMoves :
      \A t \in Outcomes(a) :
        ~SurvivesTrap(t) =>
          /\ ~t.running
          /\ Count(t, "game_over") >= 1
          /\ Precedes(t, "trap_check", "game_over")
          /\ t.pos = Target(a)
          /\ Count(t, "pickup_check") = 0
          /\ t.inventory = inventory /\ t.gold = gold /\ t.items = items
          /\ Count(t, "stairs_check") = 0
          /\ Count(t, "generate") = 0
          /\ Count(t, "victory") = 0
          /\ Count(t, "msg_topmost_floor") = 0
          /\ t.current_level = current_level
          /\ t.enemies = enemies
          /\ Count(t, "enemy_turn") = 0
          /\ Count(t, "enemy_act") = 0
          /\ Count(t, "purge") = 0
          /\ Count(t, "poison_tick") = 0
          /\ Count(t, "buff_tick") = 0

\* the player dies of a trap that lies on the down staircase
C16_Witness ==
    \E a \in StepMoves :
      /\ Grid(Target(a)) = ">"
      /\ \E t \in Outcomes(a) : ~SurvivesTrap(t)

\* the enemies of the current floor by their alive flag
Living == {i \in 1..Len(enemies) : enemies[i].alive}

Dead == {i \in 1..Len(enemies) : ~enemies[i].alive}

\* the moves of the current state that attack a living enemy
AttackMoves == {a \in MoveActions : InGame /\ LivingAt(Target(a)) # {}}

\* C17: when the player's attack kills its target, XP equal to the
\* enemy's reward is granted and the enemy is removed from the enemies
\* collection before the enemy-turn pass of the same action begins: the
\* killed enemy does not act in that pass and the purge of the pass finds
\* only the enemies that were dead before the action.
C17_KilledEnemyRemoved ==
    \A a \in AttackMoves :
      \A t \in Outcomes(a) :
        Count(t, "msg_xp") + Count(t, "remove_enemy") > 0 =>
          /\ Count(t, "attack") = 1
          /\ \A i \in At(t, "attack") :
               /\ t.xp = xp + xp_reward(enemies[t.trace[i][2]].type)
               /\ \A j \in At(t, "msg_xp") :
                    t.trace[j][2] = xp_reward(enemies[t.trace[i][2]].type)
          /\ Count(t, "msg_xp") = 1
          /\ Count(t, "remove_enemy") = 1
          /\ Precedes(t, "msg_xp", "remove_enemy")
          /\ Precedes(t, "remove_enemy", "enemy_turn")
          /\ Count(t, "enemy_turn") = 1
          /\ Count(t, "enemy_act") <= Cardinality(Living) - 1
          /\ \A i \in At(t, "purge") :
               /\ t.trace[i][2] = Cardinality(Dead)
               /\ Len(t.enemies) = Cardinality(Living) - 1
               /\ \A k \in 1..Len(t.enemies) : t.enemies[k].alive

\* the player kills one of two living enemies and the other one acts in
\* the enemy turn of the same action
C17_Witness ==
    \E a \in AttackMoves :
      \E t \in Outcomes(a) :
        /\ Count(t, "remove_enemy") = 1
        /\ t.xp > xp
        /\ Count(t, "enemy_act") = 1
        /\ Count(t, "purge") = 1

\* the steps a level transition consists of
TransitionSteps == {"generate", "spawn_enemies", "msg_boss_warning", "spawn_items",
                    "fov", "msg_enter_level", "victory", "msg_topmost_floor"}

\* C18: an action in which the player steps onto a staircase tile and the
\* level transition is triggered ends right after the transition: after
\* the staircase check only the steps of the transition run, and no enemy
\* turn and no status tick runs in the action.
C18_StairsEndAction ==
    \A a \in StairMoves("<") \cup StairMoves(">") :
      \A t \in Outcomes(a) :
        Count(t, "stairs_check") = 1 =>
          /\ Count(t, "generate") + Count(t, "victory")
               + Count(t, "msg_topmost_floor") = 1
          /\ \A i \in At(t, "stairs_check") :
               \A j \in 1..Len(t.trace) : j > i => t.trace[j][1] \in TransitionSteps
          /\ Count(t, "fov") = Count(t, "generate")
          /\ Count(t, "enemy_turn") = 0
          /\ Count(t, "enemy_act") = 0
          /\ Count(t, "purge") = 0
          /\ Count(t, "poison_tick") = 0
          /\ Count(t, "buff_tick") = 0

\* the player walks onto the down staircase of a floor with living
\* enemies and arrives on the next floor
C18_Witness ==
    /\ Living # {}
    /\ \E a \in StairMoves(">") :
         \E t \in Outcomes(a) :
           /\ Count(t, "move") = 1
           /\ Count(t, "stairs_check") = 1
           /\ t.current_level = current_level + 1

CloseActions == {"QUIT", "ESC", "INVENTORY"}

\* C19: inventory mode is entered only by the open-inventory action;
\* while it is open every action goes to the inventory handler: use, drop
\* and close leave the mode closed with the selection cleared, a number
\* key leaves it open and only sets the selection, close changes nothing
\* else, and no action taken in the mode runs an enemy turn or changes the
\* floor.
C19_InventoryMode ==
    \A a \in Inputs :
      \A t \in Outcomes(a) :
        /\ (~showing_inventory /\ t.showing_inventory) =>
             (a = "INVENTORY" /\ t.selected_item_index = -1)
        /\ showing_inventory =>
             /\ a \in {"USE_ITEM", "DROP_ITEM"} \cup CloseActions =>
                  ~t.showing_inventory /\ t.selected_item_index = -1
             /\ a \in CloseActions =>
                  t = [World EXCEPT !.showing_inventory = FALSE,
                                    !.selected_item_index = -1]
             /\ a \in NumberActions =>
                  t = [World EXCEPT !.selected_item_index = get_item_index(a)]
             /\ a \notin {"USE_ITEM", "DROP_ITEM"} \cup CloseActions \cup NumberActions =>
                  t = World
             /\ Count(t, "enemy_turn") = 0
             /\ Count(t, "enemy_act") = 0
             /\ Count(t, "poison_tick") = 0
             /\ Count(t, "generate") = 0
             /\ Count(t, "move") = 0
             /\ t.current_level = current_level
             /\ t.running

\* an item is selected in the open inventory, next to a living enemy, and
\* using it closes the inventory
C19_Witness ==
    /\ InInventory
    /\ HasItem(World, selected_item_index)
    /\ \E i \in Living : Adjacent(enemies[i].pos, pos)
    /\ \E t \in Outcomes("USE_ITEM") : ~t.showing_inventory /\ t.inventory = <<>>

\* C20: when the player dies in an action, whichever step killed the
\* player, the defeat end-state is rendered exactly once and the loop
\* stops.
C20_DefeatRenderedOnce ==
    \A a \in Inputs :
      \A t \in Outcomes(a) :
        ~is_alive(t) => (Count(t, "game_over") = 1 /\ ~t.running)

\* C21: in every reachable state 1 <= floor index <= total_levels; an
\* action changes the floor index only by a level transition, which
\* generates one floor and moves the index by exactly one, up on a
\* descent and down on an ascent, never below 1 or above total_levels.
C21_FloorIndexInRange ==
    /\ 1 <= current_level /\ current_level <= TotalLevels
    /\ \A a \in Inputs :
         \A t \in Outcomes(a) :
           /\ 1 <= t.current_level /\ t.current_level <= TotalLevels
           /\ Count(t, "generate") <= 1
           /\ Count(t, "generate") = 0 => t.current_level = current_level
           /\ Count(t, "generate") = 1 =>
                /\ a \in StairMoves("<") \cup StairMoves(">")
                /\ a \in StairMoves(">") => t.current_level = current_level + 1
                /\ a \in StairMoves("<") => t.current_level = current_level - 1
                /\ \A i \in At(t, "generate") : t.trace[i][2] = t.current_level

\* the player, having descended to the final floor, climbs back up
C21_Witness ==
    /\ current_level = TotalLevels
    /\ \E a \in StairMoves("<") :
         \E t \in Outcomes(a) :
           Count(t, "generate") = 1 /\ t.current_level = current_level - 1

=============================================================================
